---- MODULE Spec2Model ----
(***************************************************************************)
(* Competitive Mirror Descent (multi_cmd/cmd_utils.py, optim/potentials.py) *)
(* over games with quadratic objectives.  Tensor elements are exact         *)
(* rationals <<n, d>> (d > 0, lowest terms); the values a floating-point    *)
(* division by zero produces are kept as <<1,0>> (+inf), <<-1,0>> (-inf)    *)
(* and <<0,0>> (NaN).                                                       *)
(***************************************************************************)
EXTENDS Integers, Sequences, FiniteSets, TLC

VARIABLES
    game,         \* the objectives, the potential and the tolerances of the run
    player_list,  \* per player, the list of its parameter tensors
    state,        \* CMD.state: step, last_dual_soln, last_dual_soln_n_iter
    cg,           \* the frame of the running metamatrix_conjugate_gradient call
    call,         \* the caller's position and what earlier calls returned
    io            \* inputs and results of the directly called utilities

vars == <<game, player_list, state, cg, call, io>>

(***************************************************************************)
(* Bounds of the model.                                                    *)
(***************************************************************************)
MaxCoef == 2          \* objective coefficients range over -MaxCoef..MaxCoef
MaxMagnitude == 200   \* a call is followed while numerators and denominators stay within it
MaxVecEntry == 1      \* entries of directly supplied vectors: 0..MaxVecEntry
MaxNSteps == 2        \* n_steps of a direct solver call ranges over 0..MaxNSteps
MaxCalls == 2         \* solver calls on one game

(***************************************************************************)
(* Python's None and optional values.                                      *)
(***************************************************************************)
None == <<>>
Some(v) == <<v>>
IsNone(o) == o = <<>>
Get(o) == o[1]

(***************************************************************************)
(* Scalar arithmetic.                                                      *)
(***************************************************************************)
Abs(n) == IF n < 0 THEN -n ELSE n
Sign(n) == IF n < 0 THEN -1 ELSE IF n = 0 THEN 0 ELSE 1

RECURSIVE GCD(_, _)
GCD(a, b) == IF b = 0 THEN a ELSE GCD(b, a % b)

Rat(n, d) ==
    IF d = 0 THEN <<Sign(n), 0>>
    ELSE LET g == GCD(Abs(n), Abs(d))
             s == Sign(d)
         IN <<(s * n) \div g, (s * d) \div g>>

Z(n) == <<n, 1>>
Zero == <<0, 1>>
NaN == <<0, 0>>
IsFinite(a) == a[2] # 0

\* sums and products cancel common factors before they multiply, so that
\* only a result too large for the integers overflows
RAdd(a, b) ==
    IF a[2] = 0 /\ b[2] = 0
    THEN IF a = b THEN a ELSE NaN
    ELSE IF a[2] = 0 THEN a
    ELSE IF b[2] = 0 THEN b
    ELSE LET g == GCD(a[2], b[2])
         IN Rat(a[1] * (b[2] \div g) + b[1] * (a[2] \div g), (a[2] \div g) * b[2])

RNeg(a) == <<-a[1], a[2]>>
RSub(a, b) == RAdd(a, RNeg(b))
RMul(a, b) ==
    IF a[2] = 0 \/ b[2] = 0 THEN <<Sign(a[1]) * Sign(b[1]), 0>>
    ELSE LET g1 == GCD(Abs(a[1]), b[2])
             g2 == GCD(Abs(b[1]), a[2])
         IN <<(a[1] \div g1) * (b[1] \div g2), (a[2] \div g2) * (b[2] \div g1)>>

RInv(a) ==
    IF a[1] = 0 THEN (IF a[2] = 0 THEN NaN ELSE <<1, 0>>)
    ELSE IF a[1] > 0 THEN <<a[2], a[1]>> ELSE <<-a[2], -a[1]>>

RDiv(a, b) == RMul(a, RInv(b))

\* a/b < c/d for b, d > 0, by comparing integer parts and then the
\* reciprocals of the fractional parts (no products, so no overflow)
RECURSIVE FracLt(_, _, _, _)
FracLt(a, b, c, d) ==
    LET qa == a \div b
        qc == c \div d
        ra == a - qa * b
        rc == c - qc * d
    IN IF qa # qc THEN qa < qc
       ELSE IF rc = 0 THEN FALSE
       ELSE IF ra = 0 THEN TRUE
       ELSE FracLt(d, rc, b, ra)

\* a < b as the floating-point comparison: false whenever a or b is NaN.
RLt(a, b) ==
    IF a = NaN \/ b = NaN THEN FALSE
    ELSE IF a[2] = 0 \/ b[2] = 0
         THEN (IF a[2] = 0 /\ b[2] = 0 THEN a[1] < b[1]
               ELSE IF a[2] = 0 THEN a[1] < 0 ELSE b[1] > 0)
    ELSE FracLt(a[1], a[2], b[1], b[2])

RLe(a, b) == a = b \/ RLt(a, b)

(***************************************************************************)
(* Flat vectors (1-d tensors) and lists of them.                           *)
(***************************************************************************)
RECURSIVE SumSeq(_)
SumSeq(s) == IF s = <<>> THEN Zero ELSE RAdd(s[1], SumSeq(Tail(s)))

RECURSIVE Cat(_)
Cat(ss) == IF ss = <<>> THEN <<>> ELSE ss[1] \o Cat(Tail(ss))

dot(u, v) == SumSeq([k \in 1..Len(u) |-> RMul(u[k], v[k])])
zeros(n) == [k \in 1..n |-> Zero]
zeros_like(v) == zeros(Len(v))
VNeg(v) == [k \in 1..Len(v) |-> RNeg(v[k])]
VAdd(u, v) == [k \in 1..Len(u) |-> RAdd(u[k], v[k])]
VScale(a, v) == [k \in 1..Len(v) |-> RMul(a, v[k])]

\* sum(torch.dot(e1, e2) for e1, e2 in zip(us, vs))
JointDot(us, vs) == SumSeq([i \in 1..Len(us) |-> dot(us[i], vs[i])])
\* torch._foreach_add(xs, ys, alpha=a) and torch._foreach_sub_(xs, ys, alpha=a)
foreach_add(xs, ys, a) == [i \in 1..Len(xs) |-> VAdd(xs[i], VScale(a, ys[i]))]
foreach_sub(xs, ys, a) == [i \in 1..Len(xs) |-> VAdd(xs[i], VScale(RNeg(a), ys[i]))]

(***************************************************************************)
(* Tensors: a shape and the elements in storage (row-major) order.         *)
(***************************************************************************)
RECURSIVE Prod(_)
Prod(s) == IF s = <<>> THEN 1 ELSE s[1] * Prod(Tail(s))

RECURSIVE SumInt(_)
SumInt(s) == IF s = <<>> THEN 0 ELSE s[1] + SumInt(Tail(s))

\* flat.reshape(shape): the nested rows of a flat vector, row-major
RECURSIVE reshape(_, _)
reshape(flat, shape) ==
    IF shape = <<>> THEN flat[1]
    ELSE LET stride == Prod(Tail(shape))
         IN [i \in 1..shape[1] |->
                reshape(SubSeq(flat, (i - 1) * stride + 1, i * stride), Tail(shape))]

\* the elements of nested rows of the given rank, row-major
RECURSIVE FlatData(_, _)
FlatData(d, rank) ==
    IF rank = 0 THEN <<d>>
    ELSE Cat([i \in 1..Len(d) |-> FlatData(d[i], rank - 1)])

\* a tensor of the given shape holding the flat vector's elements
Tensor(shape, flat) == [shape |-> shape, data |-> reshape(flat, shape)]
numel(t) == Prod(t.shape)
\* t.contiguous().view(-1)
view_flat(t) == FlatData(t.data, Len(t.shape))
PlayerNumel(player) == SumInt([t \in 1..Len(player) |-> numel(player[t])])
\* first joint index (0-based offset) of player j's block, and of its tensor t
PlayerOffset(pl, j) == SumInt([k \in 1..(j - 1) |-> PlayerNumel(pl[k])])
TensorOffset(player, t) == SumInt([k \in 1..(t - 1) |-> numel(player[k])])
JointDim(pl) == PlayerOffset(pl, Len(pl) + 1)
BlockIdx(pl, j) == (PlayerOffset(pl, j) + 1)..(PlayerOffset(pl, j) + PlayerNumel(pl[j]))
TensorIdx(pl, j, t) ==
    (PlayerOffset(pl, j) + TensorOffset(pl[j], t) + 1)
        ..(PlayerOffset(pl, j) + TensorOffset(pl[j], t) + numel(pl[j][t]))

(***************************************************************************)
(* flatten_filter_none                                                     *)
(***************************************************************************)
\* variant: a missing gradient contributes no elements
FlattenNoOffsetBug(grad_list, param_list, neg) ==
    LET filtered == [k \in 1..Len(grad_list) |->
                        IF IsNone(grad_list[k]) THEN <<>>
                        ELSE view_flat(Get(grad_list[k]))]
    IN IF neg THEN VNeg(Cat(filtered)) ELSE Cat(filtered)

flatten_filter_none(grad_list, param_list, neg) ==
    LET n == IF Len(grad_list) < Len(param_list) THEN Len(grad_list)
             ELSE Len(param_list)
        filtered == [k \in 1..n |->
                        IF IsNone(grad_list[k]) THEN zeros(numel(param_list[k]))
                        ELSE view_flat(Get(grad_list[k]))]
    IN IF neg THEN VNeg(Cat(filtered)) ELSE Cat(filtered)

\* flatten_filter_none(player, player, detach=True)
FlattenPlayer(player) ==
    flatten_filter_none([t \in 1..Len(player) |-> Some(player[t])], player, FALSE)

(***************************************************************************)
(* step's write-back of the mapped vectors into the players' tensors.      *)
(***************************************************************************)
\* mapped_flattened[idx: idx + n]: a slice stops at the end of the vector
Slice(mapped_flattened, idx, n) ==
    SubSeq(mapped_flattened, idx + 1,
           IF idx + n < Len(mapped_flattened) THEN idx + n
           ELSE Len(mapped_flattened))

\* variant: the index is not advanced
IdxStuck(idx, n) == idx

\* idx += p.numel()
IdxAfter(idx, n) == idx + n

\* the inner loop from tensor t on; reshape raises when the slice has not
\* numel elements, and the tensors assigned before it keep their new data
RECURSIVE WritePlayer(_, _, _, _)
WritePlayer(player, mapped_flattened, t, idx) ==
    IF t > Len(player) THEN [ok |-> TRUE, player |-> player]
    ELSE LET p == player[t]
             s == Slice(mapped_flattened, idx, numel(p))
         IN IF Len(s) # numel(p) THEN [ok |-> FALSE, player |-> player]
            ELSE WritePlayer([player EXCEPT ![t] = Tensor(p.shape, s)],
                             mapped_flattened, t + 1, IdxAfter(idx, numel(p)))

\* the outer loop from player j on, over zip(player_list, mapped_list)
RECURSIVE WriteBack(_, _, _)
WriteBack(pl, mapped_list_flattened, j) ==
    IF j > Len(pl) \/ j > Len(mapped_list_flattened)
    THEN [ok |-> TRUE, player_list |-> pl]
    ELSE LET w == WritePlayer(pl[j], mapped_list_flattened[j], 1, 0)
             written == [pl EXCEPT ![j] = w.player]
         IN IF ~w.ok THEN [ok |-> FALSE, player_list |-> written]
            ELSE WriteBack(written, mapped_list_flattened, j + 1)

(***************************************************************************)
(* The objectives and automatic differentiation.  A loss is the quadratic  *)
(*   f(x) = SUM_{a <= b} q[a][b] x_a x_b + SUM_a c[a] x_a                  *)
(* of the joint parameter vector x (all players' tensors in order).        *)
(***************************************************************************)
JointX(pl) == Cat([j \in 1..Len(pl) |-> FlattenPlayer(pl[j])])

\* d2 f / dx_a dx_b
D2(loss, a, b) ==
    IF a = b THEN 2 * loss.q[a][a]
    ELSE IF a < b THEN loss.q[a][b] ELSE loss.q[b][a]

\* df / dx_a at the current parameters
D1(loss, pl, a) ==
    LET x == JointX(pl)
    IN RAdd(Z(loss.c[a]),
            SumSeq([b \in 1..Len(x) |-> RMul(Z(D2(loss, a, b)), x[b])]))

\* whether f depends on some element with index in idx
DependsOn(loss, dim, idx) ==
    \E a \in idx : loss.c[a] # 0 \/ \E b \in 1..dim : D2(loss, a, b) # 0

\* autograd.grad(loss, pl[j], allow_unused=True): one gradient per tensor,
\* None for a tensor the loss does not depend on
GradRaw(loss, pl, j) ==
    [t \in 1..Len(pl[j]) |->
        IF ~DependsOn(loss, JointDim(pl), TensorIdx(pl, j, t)) THEN None
        ELSE LET off == PlayerOffset(pl, j) + TensorOffset(pl[j], t)
             IN Some(Tensor(pl[j][t].shape,
                            [k \in 1..numel(pl[j][t]) |-> D1(loss, pl, off + k)]))]

\* autograd.grad(grad_flattened, pl[i], grad_outputs=v, allow_unused=True) where
\* grad_flattened is the flattened GradRaw(loss, pl, j): per tensor of player i
\* the derivative of <grad_flattened, v>, None where nothing depends on it
HvpRaw(loss, pl, j, i, v) ==
    LET offj == PlayerOffset(pl, j)
        nj == PlayerNumel(pl[j])
    IN [t \in 1..Len(pl[i]) |->
        IF \A a \in TensorIdx(pl, i, t) : \A b \in BlockIdx(pl, j) : D2(loss, b, a) = 0
        THEN None
        ELSE LET off == PlayerOffset(pl, i) + TensorOffset(pl[i], t)
             IN Some(Tensor(pl[i][t].shape,
                  [k \in 1..numel(pl[i][t]) |->
                     SumSeq([m \in 1..nj |->
                        RMul(Z(D2(loss, offj + m, off + k)), v[m])])]))]

(***************************************************************************)
(* potentials.squared_distance(alpha)                                      *)
(***************************************************************************)
Dx(alpha, x_dual) == [k \in 1..Len(x_dual) |-> RDiv(x_dual[k], Z(alpha))]
Dx_inv(alpha, x_dual) == [k \in 1..Len(x_dual) |-> RMul(x_dual[k], Z(alpha))]
\* variant: the primal point scaled in place of the vector
Dxx_vpOfPrimal(alpha, x_primal, vec) ==
    [k \in 1..Len(vec) |-> RMul(x_primal[k], Z(alpha))]

Dxx_vp(alpha, x_primal, vec) == [k \in 1..Len(vec) |-> RMul(vec[k], Z(alpha))]

\* exp_map under squared_distance(alpha), over zip(players, nash)
exp_map(player_list_flattened, nash_list_flattened, alpha) ==
    [k \in 1..(IF Len(player_list_flattened) < Len(nash_list_flattened)
                THEN Len(player_list_flattened) ELSE Len(nash_list_flattened)) |->
        Dx(alpha, VAdd(Dx_inv(alpha, player_list_flattened[k]),
                       Dxx_vp(alpha, player_list_flattened[k],
                              nash_list_flattened[k])))]

(***************************************************************************)
(* avp: the product of the metamatrix (or its transpose) with a vector list *)
(***************************************************************************)
\* variant: the row player's objective whatever transpose is
AvpLossNoSwap(hessian_loss_list, i, j, transpose) == hessian_loss_list[i]

AvpLoss(hessian_loss_list, i, j, transpose) ==
    IF ~transpose THEN hessian_loss_list[i] ELSE hessian_loss_list[j]

AvpBlock(hessian_loss_list, pl, plf, v, alpha, transpose, i, j) ==
    IF i = j THEN Dxx_vp(alpha, plf[i], v[j])
    ELSE LET loss == AvpLoss(hessian_loss_list, i, j, transpose)
         IN flatten_filter_none(HvpRaw(loss, pl, j, i, v[j]), pl[i], FALSE)

RECURSIVE AvpRow(_, _, _, _, _, _, _, _)
AvpRow(hessian_loss_list, pl, plf, v, alpha, transpose, i, j) ==
    IF j = 0 THEN zeros_like(v[i])
    ELSE VAdd(AvpRow(hessian_loss_list, pl, plf, v, alpha, transpose, i, j - 1),
              AvpBlock(hessian_loss_list, pl, plf, v, alpha, transpose, i, j))

avp(hessian_loss_list, pl, plf, v, alpha, transpose) ==
    [i \in 1..Len(pl) |->
        AvpRow(hessian_loss_list, pl, plf, v, alpha, transpose, i, Len(v))]

(***************************************************************************)
(* metamatrix_conjugate_gradient.  The frame of a call holds its locals:   *)
(* x is vector_list_flattened, i the loop variable (None until the loop    *)
(* body has run once).  The other fields record what the call did: early   *)
(* (the early exit was taken), updates (in-place updates of x), old_rdotr  *)
(* and new_rdotr (the squared residual before and after the last           *)
(* iteration), old_x (x before it), den (the last step-size denominator),  *)
(* broke (the loop ended by its break), b, r0 and x0 (the right-hand side, *)
(* Mt b and the vectors the call started from).                            *)
(***************************************************************************)
Default_n_steps == 5

\* the early-exit test: rdotr < residual_tol or rdotr < atol
\* variant: non-strict comparisons
BelowTolNonStrict(rdotr, residual_tol, atol) ==
    RLe(rdotr, residual_tol) \/ RLe(rdotr, atol)

\* variant: the relative test alone
BelowTolRelativeOnly(rdotr, residual_tol, atol) == RLt(rdotr, residual_tol)

BelowTol(rdotr, residual_tol, atol) == RLt(rdotr, residual_tol) \/ RLt(rdotr, atol)

\* the negative gradients b
NegGrads(grad_loss_list, pl) ==
    [i \in 1..Len(pl) |->
        flatten_filter_none(GradRaw(grad_loss_list[i], pl, i), pl[i], TRUE)]

\* variant: the second product taken without transpose
NormalProductUntransposed(hl, pl, plf, v, alpha) ==
    avp(hl, pl, plf, avp(hl, pl, plf, v, alpha, FALSE), alpha, FALSE)

\* At * A * v
NormalProduct(hl, pl, plf, v, alpha) ==
    avp(hl, pl, plf, avp(hl, pl, plf, v, alpha, FALSE), alpha, TRUE)

\* the residual the guess starts from
\* variant: the residual of the zero vector whatever the guess
InitialResidualIgnoringGuess(hl, pl, plf, r0, guess, alpha) == r0

InitialResidual(hl, pl, plf, r0, guess, alpha) ==
    IF IsNone(guess) THEN r0
    ELSE foreach_sub(r0, NormalProduct(hl, pl, plf, Get(guess), alpha), Z(1))

\* lines 188-233: the call up to the loop
SolverBegin(gl, hl, pl, plf, guess, alpha, n_steps, tol, atol) ==
    LET b == NegGrads(gl, pl)
        r0 == avp(hl, pl, plf, b, alpha, TRUE)
        norm_At_b == JointDot(r0, r0)
        residual_tol == RMul(tol, norm_At_b)
        x == IF IsNone(guess) THEN [i \in 1..Len(plf) |-> zeros_like(plf[i])]
             ELSE Get(guess)
        r == InitialResidual(hl, pl, plf, r0, guess, alpha)
        rdotr == JointDot(r, r)
        exit == BelowTol(rdotr, residual_tol, atol)
    IN [pc |-> IF exit THEN "returned" ELSE "loop",
        n_steps |-> n_steps, residual_tol |-> residual_tol, atol |-> atol,
        x |-> x, r |-> r, p |-> r, rdotr |-> rdotr,
        i |-> None, n_iter |-> 0,
        early |-> exit, updates |-> 0, broke |-> FALSE,
        old_rdotr |-> rdotr, new_rdotr |-> rdotr, den |-> Z(1),
        b |-> b, r0 |-> r0, x0 |-> x, old_x |-> x, guessed |-> ~IsNone(guess)]

\* the index the for loop hands out next
NextIndex(f) == IF IsNone(f.i) THEN 0 ELSE Get(f.i) + 1

\* the step size
\* variant: <p, p> as the denominator
StepSizeOverPP(rdotr, p, At_A_p) == RDiv(rdotr, JointDot(p, p))

StepSize(rdotr, p, At_A_p) == RDiv(rdotr, JointDot(p, At_A_p))

\* lines 237-266: one pass through the loop body
LoopBody(f, hl, pl, plf, alpha_b) ==
    LET At_A_p == NormalProduct(hl, pl, plf, f.p, alpha_b)
        den == JointDot(f.p, At_A_p)
        alpha == StepSize(f.rdotr, f.p, At_A_p)
        x == foreach_add(f.x, f.p, alpha)
        r == foreach_sub(f.r, At_A_p, alpha)
        new_rdotr == JointDot(r, r)
        brk == RLt(new_rdotr, f.atol) \/ RLt(new_rdotr, f.residual_tol)
        beta == RDiv(new_rdotr, f.rdotr)
    IN [f EXCEPT !.i = Some(NextIndex(f)),
                 !.x = x, !.r = r,
                 !.updates = f.updates + 1,
                 !.old_rdotr = f.rdotr, !.new_rdotr = new_rdotr, !.den = den,
                 !.old_x = f.x,
                 !.broke = brk,
                 !.p = IF brk THEN f.p ELSE foreach_add(r, f.p, beta),
                 !.rdotr = IF brk THEN f.rdotr ELSE new_rdotr]

LoopRunning(f) == f.pc = "loop" /\ ~f.broke /\ NextIndex(f) < f.n_steps

\* the value of i + 1 at line 268: None when i was never bound
\* variant: the loop index itself
ReturnCountFromZero(f) == IF IsNone(f.i) THEN None ELSE Some(Get(f.i))

ReturnCount(f) == IF IsNone(f.i) THEN None ELSE Some(Get(f.i) + 1)

\* line 268: return vector_list_flattened, i+1 (an UnboundLocalError when the
\* loop body never ran)
LoopEnd(f) ==
    IF IsNone(ReturnCount(f)) THEN [f EXCEPT !.pc = "raised"]
    ELSE [f EXCEPT !.pc = "returned", !.n_iter = Get(ReturnCount(f))]

(***************************************************************************)
(* Games of the model: player shapes and quadratic objectives.             *)
(***************************************************************************)
Coefs == (-MaxCoef)..MaxCoef

\* players' tensor shapes: one player with a 2-element tensor; two scalar
\* players; a player with two 1-element tensors against a scalar player
Shapes1 == << << <<2>> >> >>
Shapes2 == << << <<1>> >>, << <<1>> >> >>
Shapes3 == << << <<1>>, <<1>> >>, << <<1>> >> >>

ShapeDim(shapes) ==
    SumInt([j \in 1..Len(shapes) |->
               SumInt([t \in 1..Len(shapes[j]) |-> Prod(shapes[j][t])])])

\* the player list with the given shapes holding the joint vector x
MakePlayers(shapes, x) ==
    [j \in 1..Len(shapes) |->
        LET offj == SumInt([k \in 1..(j - 1) |->
                       SumInt([t \in 1..Len(shapes[k]) |-> Prod(shapes[k][t])])])
        IN [t \in 1..Len(shapes[j]) |->
              LET off == offj + SumInt([k \in 1..(t - 1) |-> Prod(shapes[j][k])])
              IN Tensor(shapes[j][t],
                        [k \in 1..Prod(shapes[j][t]) |-> x[off + k]])]]

\* index pairs a < b lying in different players' blocks
CrossPairs(shapes) ==
    LET pl == MakePlayers(shapes, zeros(ShapeDim(shapes)))
    IN {ab \in (1..ShapeDim(shapes)) \X (1..ShapeDim(shapes)) :
          /\ ab[1] < ab[2]
          /\ \E i, j \in 1..Len(shapes) :
                i # j /\ ab[1] \in BlockIdx(pl, i) /\ ab[2] \in BlockIdx(pl, j)}

\* the loss with coefficients f on the pairs of its domain, d on every square
\* and c on the linear terms
MakeLoss(dim, f, d, c) ==
    [q |-> [a \in 1..dim |-> [b \in 1..dim |->
                IF <<a, b>> \in DOMAIN f THEN f[<<a, b>>]
                ELSE IF a = b THEN d ELSE 0]],
     c |-> c]

VecEntries == 0..MaxVecEntry
\* the joint vector w split into one flat vector per player
SplitJoint(shapes, w) ==
    LET pl == MakePlayers(shapes, zeros(ShapeDim(shapes)))
    IN [j \in 1..Len(shapes) |->
            [k \in 1..PlayerNumel(pl[j]) |-> w[PlayerOffset(pl, j) + k]]]
\* vector lists shaped like the players' flattened parameters
VectorLists(shapes) ==
    {SplitJoint(shapes, [a \in 1..ShapeDim(shapes) |-> Z(w[a])]) :
          w \in [1..ShapeDim(shapes) -> VecEntries]}

NoFrame == [pc |-> "none"]
NoState == [step |-> 0, last_dual_soln |-> None, last_dual_soln_n_iter |-> 0]
NoCall == [pc |-> "none"]
NoIO == [op |-> "none"]

(***************************************************************************)
(* SpecAvp: avp called directly on vector lists u and v.                   *)
(***************************************************************************)
\* three scalar players
ShapesTrio == << << <<1>> >>, << <<1>> >>, << <<1>> >> >>

\* the cross pairs with one index in player i's block
PairsOf(shapes, i) ==
    LET pl == MakePlayers(shapes, zeros(ShapeDim(shapes)))
    IN {ab \in CrossPairs(shapes) :
           ab[1] \in BlockIdx(pl, i) \/ ab[2] \in BlockIdx(pl, i)}

\* per player a loss of bilinear couplings between its own parameters and
\* the other players', with coefficients from coefs
BilinearLossLists(shapes, coefs) ==
    LET dim == ShapeDim(shapes)
        Losses(i) == {MakeLoss(dim, f, 0, [a \in 1..dim |-> 0]) :
                         f \in [PairsOf(shapes, i) -> coefs]}
    IN {hl \in [1..Len(shapes) -> UNION {Losses(i) : i \in 1..Len(shapes)}] :
           \A i \in 1..Len(shapes) : hl[i] \in Losses(i)}

AvpGames ==
    {<<Shapes2, hl>> : hl \in BilinearLossLists(Shapes2, {-2, 0, 1})}
        \cup {<<Shapes3, hl>> : hl \in BilinearLossLists(Shapes3, {-2, 0, 1})}
        \cup {<<ShapesTrio, hl>> : hl \in BilinearLossLists(ShapesTrio, {-1, 2})}

\* the vector lists with one non-zero entry
UnitVectorLists(shapes) ==
    {SplitJoint(shapes, [a \in 1..ShapeDim(shapes) |-> IF a = k THEN Z(e) ELSE Zero]) :
          k \in 1..ShapeDim(shapes), e \in 1..MaxVecEntry}

InitAvp ==
    \E g \in AvpGames :
        \E alpha \in 1..2 :
          \E u \in UnitVectorLists(g[1]), v \in UnitVectorLists(g[1]) :
            /\ game = [alpha |-> alpha, hessian_loss_list |-> g[2]]
            /\ player_list = MakePlayers(g[1], zeros(ShapeDim(g[1])))
            /\ state = NoState
            /\ cg = NoFrame
            /\ call = NoCall
            /\ io = [op |-> "avp", u |-> u, v |-> v, Mv |-> None, Mtu |-> None]

\* avp(hessian_loss_list, player_list, player_list_flattened, v, transpose=False)
CallAvp ==
    /\ io.op = "avp" /\ IsNone(io.Mv)
    /\ io' = [io EXCEPT !.Mv =
                Some(avp(game.hessian_loss_list, player_list,
                         [j \in 1..Len(player_list) |-> FlattenPlayer(player_list[j])],
                         io.v, game.alpha, FALSE))]
    /\ UNCHANGED <<game, player_list, state, cg, call>>

\* avp(hessian_loss_list, player_list, player_list_flattened, u, transpose=True)
CallAvpT ==
    /\ io.op = "avp" /\ IsNone(io.Mtu)
    /\ io' = [io EXCEPT !.Mtu =
                Some(avp(game.hessian_loss_list, player_list,
                         [j \in 1..Len(player_list) |-> FlattenPlayer(player_list[j])],
                         io.u, game.alpha, TRUE))]
    /\ UNCHANGED <<game, player_list, state, cg, call>>

NextAvp == CallAvp \/ CallAvpT

SpecAvp == InitAvp /\ [][NextAvp]_vars

(***************************************************************************)
(* The metamatrix M written out: entry (a, b) for a in player i's block    *)
(* and b in player j's block is d2 f_i / dx_a dx_b when i # j; the         *)
(* diagonal blocks are alpha times the identity (Dxx_vp).                  *)
(***************************************************************************)
BlockOf(pl, a) == CHOOSE i \in 1..Len(pl) : a \in BlockIdx(pl, i)

MetaEntry(hl, pl, alpha, a, b) ==
    IF BlockOf(pl, a) = BlockOf(pl, b)
    THEN (IF a = b THEN alpha ELSE 0)
    ELSE D2(hl[BlockOf(pl, a)], a, b)

\* (M w)[a], and (Mt w)[a], for a joint vector w
MetaRow(hl, pl, alpha, w, a) ==
    SumSeq([b \in 1..Len(w) |-> RMul(Z(MetaEntry(hl, pl, alpha, a, b)), w[b])])
MetaCol(hl, pl, alpha, w, a) ==
    SumSeq([b \in 1..Len(w) |-> RMul(Z(MetaEntry(hl, pl, alpha, b, a)), w[b])])

\* C1: for quadratic objectives and the squared-distance potential, avp with
\* transpose=True is the adjoint of avp with transpose=False:
\* <u, M v> = <Mt u, v>, where avp(v, False) is M v and avp(u, True) is Mt u
\* for the metamatrix M whose block (i, j) is the cross-Hessian of player i's
\* objective and whose diagonal blocks are Dxx_vp.
C1_AvpAdjoint ==
    (io.op = "avp" /\ ~IsNone(io.Mv) /\ ~IsNone(io.Mtu)) =>
        LET hl == game.hessian_loss_list
            Mv == Cat(Get(io.Mv))
            Mtu == Cat(Get(io.Mtu))
            v == Cat(io.v)
            u == Cat(io.u)
        IN /\ JointDot(io.u, Get(io.Mv)) = JointDot(Get(io.Mtu), io.v)
           /\ \A a \in 1..Len(v) :
                 /\ Mv[a] = MetaRow(hl, player_list, game.alpha, v, a)
                 /\ Mtu[a] = MetaCol(hl, player_list, game.alpha, u, a)

\* both products computed in a two-player game whose two objectives couple
\* the players differently, on non-zero u and v
C1_Witness ==
    /\ io.op = "avp" /\ ~IsNone(io.Mv) /\ ~IsNone(io.Mtu)
    /\ Len(player_list) = 2
    /\ game.hessian_loss_list[1] # game.hessian_loss_list[2]
    /\ JointDot(io.u, Get(io.Mv)) # Zero
    /\ Get(io.Mv) # Get(io.Mtu)

(***************************************************************************)
(* SpecCG: metamatrix_conjugate_gradient called directly, and called again *)
(* on the same game with the vectors it returned as the guess.             *)
(***************************************************************************)
DefaultTol == <<1, 1000000>>

\* (tol, atol): the defaults, exact, a relative tolerance above 1, loose
TolPairs == {<<DefaultTol, DefaultTol>>, <<Zero, Zero>>, <<Z(2), Zero>>,
             <<<<1, 2>>, Z(1)>>}

\* the coefficients of the linear terms: all 1
LinearTerms(dim) == {[a \in 1..dim |-> 1]}

\* joint vectors a caller supplies as the guess
GuessPoints == {<<Z(1), Z(1)>>}

\* every entry of the vector lists has numerator and denominator within the bound
Fits(vector_lists) ==
    \A k \in 1..Len(vector_lists) : \A i \in 1..Len(vector_lists[k]) :
        \A e \in 1..Len(vector_lists[k][i]) :
            /\ Abs(vector_lists[k][i][e][1]) <= MaxMagnitude
            /\ vector_lists[k][i][e][2] <= MaxMagnitude

\* the point the parameters start from
InitPoint(dim) == [a \in 1..dim |-> Z(1)]

OwnLinear(shapes, i, w) ==
    LET pl == MakePlayers(shapes, zeros(ShapeDim(shapes)))
    IN [a \in 1..ShapeDim(shapes) |-> IF a \in BlockIdx(pl, i) THEN w[a] ELSE 0]

\* per player a loss with squares, bilinear couplings to the other players
\* and linear terms in its own parameters
CoupledLossLists(shapes) ==
    LET dim == ShapeDim(shapes)
    IN {[i \in 1..Len(shapes) |-> MakeLoss(dim, fs[i], 1, OwnLinear(shapes, i, w))] :
           fs \in [1..Len(shapes) -> [CrossPairs(shapes) -> Coefs]],
           w \in LinearTerms(dim)}

ShapesOf(pl) == [j \in 1..Len(pl) |-> [t \in 1..Len(pl[j]) |-> pl[j][t].shape]]

Flattened(pl) == [j \in 1..Len(pl) |-> FlattenPlayer(pl[j])]

InitCG ==
    \E shapes \in {Shapes1, Shapes2} :
      \E ll \in CoupledLossLists(shapes) :
        \E tp \in TolPairs :
            /\ game = [alpha |-> 1, tol |-> tp[1], atol |-> tp[2],
                       grad_loss_list |-> ll, hessian_loss_list |-> ll,
                       kind |-> "solver"]
            /\ player_list = MakePlayers(shapes, InitPoint(ShapeDim(shapes)))
            /\ state = NoState
            /\ cg = NoFrame
            /\ call = [pc |-> "idle", last |-> None, warm |-> FALSE, count |-> 0]
            /\ io = NoIO

\* metamatrix_conjugate_gradient(..., vector_list_flattened=guess, n_steps=n_steps)
Solve(guess, n_steps, warm) ==
    /\ call.count < MaxCalls
    /\ cg' = SolverBegin(game.grad_loss_list, game.hessian_loss_list, player_list,
                         Flattened(player_list), guess, game.alpha, n_steps,
                         game.tol, game.atol)
    /\ call' = [call EXCEPT !.pc = "solving", !.warm = warm,
                            !.count = call.count + 1]
    /\ UNCHANGED <<game, player_list, state, io>>

\* a first call, without a guess or with a supplied one
CallSolver ==
    /\ call.pc = "idle" /\ IsNone(call.last)
    /\ \E n_steps \in 0..MaxNSteps :
         \E guess \in {None} \cup {Some(SplitJoint(ShapesOf(player_list), w)) : w \in GuessPoints} :
            Solve(guess, n_steps, FALSE)

\* a further call on the unchanged game with the returned vectors as the guess
CallSolverAgain ==
    /\ call.pc = "idle" /\ ~IsNone(call.last)
    /\ Fits(<<Get(call.last).x>>)
    /\ \E n_steps \in 0..MaxNSteps :
         Solve(Some(Get(call.last).x), n_steps, Get(call.last).converged)

\* one iteration of the loop.  The vectors x are updated in place: when step
\* passed state['last_dual_soln'] as the guess, they are that very list.
CGIter ==
    /\ LoopRunning(cg)
    /\ Fits(<<cg.x, cg.r, cg.p>>)
    /\ cg' = LoopBody(cg, game.hessian_loss_list, player_list,
                      Flattened(player_list), game.alpha)
    /\ state' = IF call.pc = "step" /\ cg.guessed
                THEN [state EXCEPT !.last_dual_soln = Some(cg'.x)]
                ELSE state
    /\ UNCHANGED <<game, player_list, call, io>>

\* the loop is over: return
CGReturn ==
    /\ cg.pc = "loop" /\ ~LoopRunning(cg)
    /\ cg' = LoopEnd(cg)
    /\ UNCHANGED <<game, player_list, state, call, io>>

\* the caller receives the result
SolverDone ==
    /\ call.pc = "solving" /\ cg.pc = "returned"
    /\ call' = [call EXCEPT !.pc = "idle",
                   !.last = Some([x |-> cg.x, n_iter |-> cg.n_iter,
                                  converged |-> cg.early \/ cg.broke])]
    /\ cg' = NoFrame
    /\ UNCHANGED <<game, player_list, state, io>>

NextCG == CallSolver \/ CallSolverAgain \/ CGIter \/ CGReturn \/ SolverDone

SpecCG == InitCG /\ [][NextCG]_vars

(***************************************************************************)
(* Spec: the optimizers CMD and CMD_RL stepping a fixed game.              *)
(***************************************************************************)
MaxSteps == 2          \* calls of step on one optimizer

\* one player with a vector and a 2 x 1 matrix
ShapesSolo == << << <<2>>, <<2, 1>> >> >>

\* couplings of either sign, linear term a on coordinate a
OptimizerLossLists(shapes) ==
    LET dim == ShapeDim(shapes)
    IN {[i \in 1..Len(shapes) |->
            MakeLoss(dim, fs[i], 1, OwnLinear(shapes, i, [a \in 1..dim |-> a]))] :
           fs \in [1..Len(shapes) -> [CrossPairs(shapes) -> {-1, 1}]]}

OptimizerTols == {<<DefaultTol, DefaultTol>>, <<Zero, Zero>>}

\* lines 292-313: the constructor
Init ==
    \E shapes \in {ShapesSolo, Shapes2} :
      \E kind \in {"CMD", "CMD_RL"} :
        \E gl \in OptimizerLossLists(shapes), hl \in OptimizerLossLists(shapes) :
          \E alpha \in 1..2 :
            \E tp \in OptimizerTols :
              /\ kind = "CMD" => hl = gl
              /\ game = [alpha |-> alpha, tol |-> tp[1], atol |-> tp[2],
                         grad_loss_list |-> gl, hessian_loss_list |-> hl,
                         kind |-> kind, shapes |-> shapes]
              /\ player_list = MakePlayers(shapes, InitPoint(ShapeDim(shapes)))
              /\ state = NoState
              /\ cg = NoFrame
              /\ call = [pc |-> "idle", guess |-> None, mapped |-> None]
              /\ io = NoIO

\* lines 326-342 and 384-398: flatten the players and call the solver with the
\* stored dual solution as the guess
BeginStep(grad_loss_list, hessian_loss_list) ==
    /\ call.pc = "idle"
    /\ state.step < MaxSteps
    /\ Fits(<<Flattened(player_list)>>)
    /\ cg' = SolverBegin(grad_loss_list, hessian_loss_list, player_list,
                         Flattened(player_list), state.last_dual_soln,
                         game.alpha, Default_n_steps, game.tol, game.atol)
    /\ call' = [call EXCEPT !.pc = "step", !.guess = state.last_dual_soln]
    /\ UNCHANGED <<game, player_list, state, io>>

\* CMD.step(loss_list)
StepCMD ==
    /\ game.kind = "CMD"
    /\ BeginStep(game.grad_loss_list, game.grad_loss_list)

\* CMD_RL.step(grad_loss_list, hessian_loss_list)
StepRL ==
    /\ game.kind = "CMD_RL"
    /\ BeginStep(game.grad_loss_list, game.hessian_loss_list)

\* variant: the iteration count is not stored
StoredStateKeepingCount(st, nash_list_flattened, n_iter) ==
    [st EXCEPT !.step = st.step + 1, !.last_dual_soln = Some(nash_list_flattened)]

\* lines 345-347
StoredState(st, nash_list_flattened, n_iter) ==
    [step |-> st.step + 1,
     last_dual_soln |-> Some(nash_list_flattened),
     last_dual_soln_n_iter |-> n_iter]

\* lines 345-359 and 401-415: store the state, map back, write back
StepFinish ==
    /\ call.pc = "step" /\ cg.pc = "returned"
    /\ LET mapped == exp_map(Flattened(player_list), cg.x, game.alpha)
           wb == WriteBack(player_list, mapped, 1)
       IN /\ state' = StoredState(state, cg.x, cg.n_iter)
          /\ player_list' = wb.player_list
          /\ call' = [call EXCEPT !.pc = IF wb.ok THEN "idle" ELSE "failed",
                                  !.mapped = Some(mapped)]
    /\ cg' = NoFrame
    /\ UNCHANGED <<game, io>>

Next == StepCMD \/ StepRL \/ CGIter \/ CGReturn \/ StepFinish

Spec == Init /\ [][Next]_vars

(***************************************************************************)
(* SpecWB: step's write-back loop on directly supplied mapped vectors.     *)
(***************************************************************************)
\* two players with one and two tensors
ShapesPair == << << <<2>> >>, << <<1>>, <<1, 2>> >> >>

\* vectors of up to n elements
VectorsUpTo(n) == UNION {[1..len -> {Z(e) : e \in VecEntries}] : len \in 0..n}

\* per player a mapped vector at most one element longer than its parameters
MappedLists(shapes) ==
    LET pl == MakePlayers(shapes, zeros(ShapeDim(shapes)))
    IN {m \in [1..Len(shapes) -> VectorsUpTo(ShapeDim(shapes) + 1)] :
           \A j \in 1..Len(shapes) : Len(m[j]) <= PlayerNumel(pl[j]) + 1}

InitWB ==
    \E shapes \in {Shapes3, ShapesPair} :
      \E mapped \in MappedLists(shapes) :
        LET before == MakePlayers(shapes, [a \in 1..ShapeDim(shapes) |-> Z(-a)])
        IN /\ game = [shapes |-> shapes]
           /\ player_list = before
           /\ state = NoState
           /\ cg = NoFrame
           /\ call = NoCall
           /\ io = [op |-> "write_back", pc |-> "ready", mapped |-> mapped,
                    before |-> before]

\* lines 355-359
WriteBackLoop ==
    /\ io.op = "write_back" /\ io.pc = "ready"
    /\ LET wb == WriteBack(player_list, io.mapped, 1)
       IN /\ player_list' = wb.player_list
          /\ io' = [io EXCEPT !.pc = IF wb.ok THEN "done" ELSE "failed"]
    /\ UNCHANGED <<game, state, cg, call>>

NextWB == WriteBackLoop

SpecWB == InitWB /\ [][NextWB]_vars

(***************************************************************************)
(* SpecFlat: flatten_filter_none on gradient lists with missing entries.   *)
(***************************************************************************)
ParamShapes == {<< <<2>>, <<1>> >>, << <<1>>, <<2, 1>>, <<1>> >>}

GradEntries == {-1, 2}

\* None, or a gradient tensor of the parameter's shape
GradsFor(shape) ==
    {None} \cup {Some(Tensor(shape, [k \in 1..Prod(shape) |-> Z(g[k])])) :
                    g \in [1..Prod(shape) -> GradEntries]}

InitFlat ==
    \E shapes \in ParamShapes :
      \E grad_list \in [1..Len(shapes) -> UNION {GradsFor(shapes[t]) : t \in 1..Len(shapes)}] :
        \E neg \in BOOLEAN :
          /\ \A t \in 1..Len(shapes) : grad_list[t] \in GradsFor(shapes[t])
          /\ game = [shapes |-> <<shapes>>]
          /\ player_list = MakePlayers(<<shapes>>, InitPoint(ShapeDim(<<shapes>>)))
          /\ state = NoState
          /\ cg = NoFrame
          /\ call = NoCall
          /\ io = [op |-> "flatten", grad_list |-> grad_list, neg |-> neg,
                   result |-> None]

\* flatten_filter_none(grad_list, param_list, neg=neg)
CallFlatten ==
    /\ io.op = "flatten" /\ IsNone(io.result)
    /\ io' = [io EXCEPT !.result =
                Some(flatten_filter_none(io.grad_list, player_list[1], io.neg))]
    /\ UNCHANGED <<game, player_list, state, cg, call>>

NextFlat == CallFlatten

SpecFlat == InitFlat /\ [][NextFlat]_vars

(***************************************************************************)
(* atvp, and SpecAtvp: atvp and avp(transpose=True) called on the same     *)
(* arguments.                                                              *)
(***************************************************************************)
\* variant: the first player's objective for every column
AtvpColLossFirst(hessian_loss_list, j) == hessian_loss_list[1]

\* line 130: the objective differentiated for column j
AtvpColLoss(hessian_loss_list, j) == hessian_loss_list[j]

\* lines 128-135: per player j the flattened gradient of its objective in its
\* own parameters, kept with the graph it was computed from
ColGrads(hessian_loss_list, pl) ==
    [j \in 1..Len(pl) |->
        LET loss == AtvpColLoss(hessian_loss_list, j)
        IN [of |-> loss, wrt |-> j,
            value |-> flatten_filter_none(GradRaw(loss, pl, j), pl[j], FALSE)]]

\* lines 139-152: one block of the product
AtvpBlock(col_grads_flattened, pl, plf, v, alpha, i, j) ==
    IF i = j THEN Dxx_vp(alpha, plf[i], v[j])
    ELSE LET g == col_grads_flattened[j]
         IN flatten_filter_none(HvpRaw(g.of, pl, g.wrt, i, v[j]), pl[i], FALSE)

RECURSIVE AtvpRow(_, _, _, _, _, _, _)
AtvpRow(col_grads_flattened, pl, plf, v, alpha, i, j) ==
    IF j = 0 THEN zeros_like(v[i])
    ELSE VAdd(AtvpRow(col_grads_flattened, pl, plf, v, alpha, i, j - 1),
              AtvpBlock(col_grads_flattened, pl, plf, v, alpha, i, j))

atvp(hessian_loss_list, pl, plf, v, alpha) ==
    LET col_grads_flattened == ColGrads(hessian_loss_list, pl)
    IN [i \in 1..Len(pl) |->
          AtvpRow(col_grads_flattened, pl, plf, v, alpha, i, Len(v))]

\* the points the products are taken at
AtvpPoints(dim) == {zeros(dim), InitPoint(dim), [a \in 1..dim |-> Z(a)]}

InitAtvp ==
    \E g \in AvpGames :
      \E alpha \in 1..2 :
        \E x \in AtvpPoints(ShapeDim(g[1])) :
          \E u \in UnitVectorLists(g[1]) :
            /\ game = [alpha |-> alpha, hessian_loss_list |-> g[2]]
            /\ player_list = MakePlayers(g[1], x)
            /\ state = NoState
            /\ cg = NoFrame
            /\ call = NoCall
            /\ io = [op |-> "atvp", u |-> u, Atu |-> None, Mtu |-> None]

\* atvp(hessian_loss_list, player_list, player_list_flattened, u)
CallAtvp ==
    /\ io.op = "atvp" /\ IsNone(io.Atu)
    /\ io' = [io EXCEPT !.Atu =
                Some(atvp(game.hessian_loss_list, player_list,
                          Flattened(player_list), io.u, game.alpha))]
    /\ UNCHANGED <<game, player_list, state, cg, call>>

\* avp(hessian_loss_list, player_list, player_list_flattened, u, transpose=True)
CallAvpTransposed ==
    /\ io.op = "atvp" /\ IsNone(io.Mtu)
    /\ io' = [io EXCEPT !.Mtu =
                Some(avp(game.hessian_loss_list, player_list,
                         Flattened(player_list), io.u, game.alpha, TRUE))]
    /\ UNCHANGED <<game, player_list, state, cg, call>>

NextAtvp == CallAtvp \/ CallAvpTransposed

SpecAtvp == InitAtvp /\ [][NextAtvp]_vars

(***************************************************************************)
(* The solver's quantities computed from the metamatrix written out.       *)
(***************************************************************************)
\* M w and Mt w for a joint vector w
MetaTimes(w) ==
    [a \in 1..Len(w) |->
        MetaRow(game.hessian_loss_list, player_list, game.alpha, w, a)]
MetaTransposeTimes(w) ==
    [a \in 1..Len(w) |->
        MetaCol(game.hessian_loss_list, player_list, game.alpha, w, a)]
JointSub(u, v) == [a \in 1..Len(u) |-> RSub(u[a], v[a])]
NormSq(w) == dot(w, w)
AllFinite(w) == \A a \in 1..Len(w) : IsFinite(w[a])

\* r = Mt b - Mt M x0 for the vectors x0 the call started from
StartResidual(f) ==
    JointSub(MetaTransposeTimes(Cat(f.b)),
             MetaTransposeTimes(MetaTimes(Cat(f.x0))))

\* C2: with r0 = Mt b and r = r0 - Mt M x0 (x0 the guess, or zero without
\* one), the solver takes the early exit exactly when |r|^2 < tol * |r0|^2
\* or |r|^2 < atol; on the early exit it returns x0 with 0 iterations and
\* no update of x.
C2_EarlyExit ==
    (cg.pc # "none") =>
        LET rr == NormSq(StartResidual(cg))
            r0r0 == NormSq(MetaTransposeTimes(Cat(cg.b)))
            below == RLt(rr, RMul(game.tol, r0r0)) \/ RLt(rr, game.atol)
        IN /\ cg.early <=> below
           /\ cg.early => /\ cg.pc = "returned" /\ cg.n_iter = 0
                          /\ cg.updates = 0 /\ cg.x = cg.x0
           /\ ~cg.guessed => \A a \in 1..Len(Cat(cg.x0)) : Cat(cg.x0)[a] = Zero

\* an early exit on a supplied guess by the relative tolerance alone, and
\* (elsewhere) a call that passes the test with a residual equal to atol
C2_Witness ==
    /\ cg.pc = "returned" /\ cg.early /\ cg.guessed
    /\ Cat(cg.x) # zeros(Len(Cat(cg.x)))
    /\ RLt(cg.rdotr, cg.residual_tol) /\ ~RLt(cg.rdotr, cg.atol)

\* C3 (as claimed): the solver returns for every n_steps >= 0, with an
\* iteration count equal to the number of updates of x: 0 on the early exit,
\* in 1..n_steps otherwise.
C3_ReturnsCount ==
    /\ cg.pc # "raised"
    /\ cg.pc = "returned" =>
          /\ cg.n_iter = cg.updates
          /\ cg.early => cg.n_iter = 0
          /\ ~cg.early => (1 <= cg.n_iter /\ cg.n_iter <= cg.n_steps)

\* C4: a call on the unchanged game whose guess is the result of a call that
\* ended below a tolerance takes the early exit: 0 iterations, x unchanged.
C4_WarmStart ==
    (cg.pc # "none" /\ call.warm) =>
        /\ cg.pc = "returned" /\ cg.early /\ cg.n_iter = 0
        /\ cg.x = Get(call.last).x

\* the earlier call converged by iterating and returned a non-zero solution
C4_Witness ==
    /\ cg.pc = "returned" /\ call.warm /\ cg.early
    /\ Get(call.last).n_iter > 0
    /\ Cat(cg.x) # zeros(Len(Cat(cg.x)))

\* C5 (as claimed): after every iteration the joint squared residual is at
\* most what it was before the iteration.
C5_ResidualNonIncreasing ==
    (cg.pc # "none" /\ cg.updates > 0
        /\ IsFinite(cg.new_rdotr) /\ IsFinite(cg.old_rdotr)) =>
        RLe(cg.new_rdotr, cg.old_rdotr)

\* |b - M x|^2, the squared residual of the system M x = b itself
SystemResidualSq(f, x) == NormSq(JointSub(Cat(f.b), MetaTimes(Cat(x))))

\* C5 (amended): after every iteration with a finite step size, the squared
\* residual |b - M x|^2 of the system M x = b (which conjugate gradient on the
\* normal equations minimises) is at most what it was before the iteration;
\* the squared residual of the normal equations itself may increase.
C5_SystemResidualNonIncreasing ==
    (cg.pc # "none" /\ cg.updates > 0 /\ AllFinite(Cat(cg.x))) =>
        RLe(SystemResidualSq(cg, cg.x), SystemResidualSq(cg, cg.old_x))

\* an iteration after which the residual of the normal equations is larger
\* and the residual of the system is smaller
C5_Witness ==
    /\ cg.pc # "none" /\ cg.updates > 0 /\ AllFinite(Cat(cg.x))
    /\ RLt(cg.old_rdotr, cg.new_rdotr)
    /\ RLt(SystemResidualSq(cg, cg.x), SystemResidualSq(cg, cg.old_x))

\* avp leaves every test vector unchanged, for both transpose settings
AvpIsIdentity ==
    \A v \in VectorLists(ShapesOf(player_list)) : \A transpose \in BOOLEAN :
        avp(game.hessian_loss_list, player_list, Flattened(player_list),
            v, game.alpha, transpose) = v

SinglePlayerCall ==
    /\ Len(player_list) = 1 /\ game.alpha = 1
    /\ cg.pc \in {"returned", "raised"} /\ ~cg.guessed
    /\ Cat(cg.b) # zeros(Len(Cat(cg.b)))
    /\ ~RLt(NormSq(Cat(cg.b)), game.atol)

\* C6 (as claimed): for a single player under squared_distance(1), avp returns
\* v unchanged, and the solver called without a guess at a point with non-zero
\* gradient (squared norm >= atol) returns after exactly 1 iteration with x
\* the negative gradient.
C6_OneIteration ==
    /\ (Len(player_list) = 1 /\ game.alpha = 1 /\ game.kind = "solver")
          => AvpIsIdentity
    /\ SinglePlayerCall =>
          (cg.pc = "returned" /\ cg.n_iter = 1 /\ cg.x = cg.b)

\* C6 (amended): the same, for calls with tol <= 1, tol > 0 or atol > 0, and
\* n_steps >= 1.
C6_OneIterationWithinTolerance ==
    /\ (Len(player_list) = 1 /\ game.alpha = 1 /\ game.kind = "solver")
          => AvpIsIdentity
    /\ (/\ SinglePlayerCall
        /\ RLe(game.tol, Z(1))
        /\ (RLt(Zero, game.tol) \/ RLt(Zero, game.atol))
        /\ cg.n_steps >= 1) =>
          (cg.pc = "returned" /\ cg.n_iter = 1 /\ cg.x = cg.b)

C6_Witness ==
    /\ SinglePlayerCall /\ cg.pc = "returned" /\ cg.n_iter = 1 /\ cg.x = cg.b
    /\ cg.n_steps > 1

(***************************************************************************)
(* The optimizer's state, the write-back and the flattening.               *)
(***************************************************************************)
\* a step hands the stored dual solution to the solver, and a step that
\* completes stores step + 1, the returned solution and its iteration count
StepStores ==
    /\ (call.pc = "idle" /\ call'.pc = "step") =>
          /\ cg'.guessed = ~IsNone(state.last_dual_soln)
          /\ cg'.guessed => cg'.x0 = Get(state.last_dual_soln)
          /\ state' = state
    /\ (call.pc = "step" /\ call'.pc = "idle") =>
          /\ cg.pc = "returned"
          /\ state' = [step |-> state.step + 1,
                       last_dual_soln |-> Some(cg.x),
                       last_dual_soln_n_iter |-> cg.n_iter]

AtStepEnd == call.pc = "step" /\ call'.pc = "idle"

UpdatedInPlace ==
    /\ call.pc = "step" /\ call'.pc = "step" /\ ~IsNone(call.guess)
    /\ state'.step = state.step
    /\ state'.last_dual_soln_n_iter = state.last_dual_soln_n_iter
    /\ state'.last_dual_soln = Some(cg'.x)

ElementAt(tensor, k) ==
    IF Len(tensor.shape) = 1 THEN tensor.data[k]
    ELSE tensor.data[((k - 1) \div tensor.shape[2]) + 1][((k - 1) % tensor.shape[2]) + 1]

ElementsBefore(shapes, t) == SumInt([k \in 1..(t - 1) |-> Prod(shapes[k])])

\* tensor t of the player holds the slice of the vector that starts after the
\* elements of tensors 1..t-1, in the shape it was constructed with
HoldsSlice(player, shapes, vector, t) ==
    /\ player[t].shape = shapes[t]
    /\ Len(player[t].data) = shapes[t][1]
    /\ \A k \in 1..Prod(shapes[t]) :
          ElementAt(player[t], k) = vector[ElementsBefore(shapes, t) + k]

\* C8: the write-back gives tensor t the slice of the player's mapped vector
\* after the elements of tensors 1..t-1, in shape St; writing back the
\* flattened parameters reproduces them; every tensor keeps the shape it was
\* constructed with.
C8_WriteBackRoundTrip ==
    /\ ShapesOf(player_list) = game.shapes
    /\ WriteBack(player_list, Flattened(player_list), 1)
          = [ok |-> TRUE, player_list |-> player_list]
    /\ \A j \in 1..Len(player_list) : \A t \in 1..Len(player_list[j]) :
          /\ HoldsSlice(player_list[j], game.shapes[j], FlattenPlayer(player_list[j]), t)
          /\ (call.pc = "idle" /\ ~IsNone(call.mapped)) =>
                HoldsSlice(player_list[j], game.shapes[j], Get(call.mapped)[j], t)

\* two steps done on a player with a vector and a matrix, all values moved
C8_Witness ==
    /\ call.pc = "idle" /\ state.step = 2
    /\ Len(player_list[1]) = 2 /\ Len(player_list[1][2].shape) = 2
    /\ \A k \in 1..4 : \A m \in 1..4 :
          k # m => FlattenPlayer(player_list[1])[k] # FlattenPlayer(player_list[1])[m]

\* C9 (as claimed): a mapped vector whose length is not the player's element
\* count makes the write-back fail.
C9_MismatchFails ==
    (io.op = "write_back" /\ io.pc # "ready") =>
        ((\E j \in 1..Len(io.before) :
              Len(io.mapped[j]) # PlayerNumel(io.before[j]))
            => io.pc = "failed")

C11_AtvpIsAvpTransposed ==
    (io.op = "atvp" /\ ~IsNone(io.Atu) /\ ~IsNone(io.Mtu)) =>
        /\ Len(Get(io.Atu)) = Len(player_list)
        /\ \A i \in 1..Len(player_list) : Get(io.Atu)[i] = Get(io.Mtu)[i]

\* both products taken in a game of three players whose objectives differ,
\* with a non-zero off-diagonal contribution
C11_Witness ==
    /\ io.op = "atvp" /\ ~IsNone(io.Atu) /\ ~IsNone(io.Mtu)
    /\ Len(player_list) = 3
    /\ game.hessian_loss_list[1] # game.hessian_loss_list[2]
    /\ \E i \in 1..3 : Get(io.Atu)[i] # zeros(1) /\ io.u[i] = zeros(1)

\* Mt b - Mt M x for the frame's b and vectors x
NormalResidual(f, x) ==
    JointSub(MetaTransposeTimes(Cat(f.b)),
             MetaTransposeTimes(MetaTimes(Cat(x))))

\* C12: at the early-exit test and after every iteration the residual list r
\* is Mt b - Mt M x for the current x, with or without a guess (x finite: no
\* division by zero has occurred); a returned x with zero residual solves
\* Mt M x = Mt b.
C12_ResidualInvariant ==
    (cg.pc \in {"loop", "returned"} /\ AllFinite(Cat(cg.x))) =>
        /\ Cat(cg.r) = NormalResidual(cg, cg.x)
        /\ (cg.pc = "returned" /\ Cat(cg.r) = zeros(Len(Cat(cg.r)))) =>
              MetaTransposeTimes(MetaTimes(Cat(cg.x))) = MetaTransposeTimes(Cat(cg.b))

\* a call started from a guess that returned, after two iterations, a
\* non-zero x with zero residual
C12_Witness ==
    /\ cg.pc = "returned" /\ cg.guessed /\ cg.updates = 2
    /\ Cat(cg.r) = zeros(Len(Cat(cg.r)))
    /\ Cat(cg.x) # zeros(Len(Cat(cg.x)))
    /\ cg.x # cg.x0

\* C13: with atol > 0, every step size the solver computes has a strictly
\* positive (finite) denominator <p, Mt M p>, in every iteration and with or
\* without a guess, and x stays finite.
C13_PositiveDenominator ==
    (cg.pc \in {"loop", "returned"} /\ RLt(Zero, game.atol)) =>
        /\ AllFinite(Cat(cg.x))
        /\ cg.updates > 0 => (IsFinite(cg.den) /\ RLt(Zero, cg.den))

\* an iteration, started from a guess, on a singular metamatrix
C13_Witness ==
    /\ cg.pc \in {"loop", "returned"} /\ RLt(Zero, game.atol)
    /\ cg.updates = 1 /\ cg.guessed
    /\ Len(player_list) = 2
    /\ MetaEntry(game.hessian_loss_list, player_list, game.alpha, 1, 2)
         * MetaEntry(game.hessian_loss_list, player_list, game.alpha, 2, 1)
       = game.alpha * game.alpha
    /\ RLt(Zero, cg.den)

====
